---- MODULE Spec2Model ----
(***************************************************************************)
(* The document-extraction pipeline of main.py: process_file and the       *)
(* functions it calls (pdf_to_images, process_images_with_claude,          *)
(* process_excel_with_gpt), run over one batch of uploaded files.           *)
(*                                                                         *)
(* JSON values are tagged by a one-field record: [num |-> 3], [str |-> s], *)
(* [bool |-> b], [list |-> <<...>>], [dict |-> [k |-> v, ...]]; Python's   *)
(* None is Null.  A key f"pdf_page_{n}" is the pair <<"pdf_page", n>>.      *)
(***************************************************************************)
EXTENDS Integers, Sequences, FiniteSets, TLC

\* bounds of the model
MaxDocs == 2
MaxPages == 2
MaxUnits == 3

\* random.randint(1, 5) in add_random
RandLo == 1
RandHi == 5

VARIABLES
    uploaded_files,   \* the MIME type of each uploaded file, in upload order
    first_page_only,  \* the flag process_file was called with
    pc,               \* position of the run inside process_file
    raised,           \* the exception that left process_file, or "none"
    i,                \* index of the for loop over uploaded_files (0-based)
    temp_files,       \* list of temp_<i>.pdf names appended so far
    disk_temp,        \* the temp_<i>.pdf files that exist on disk
    dir_exists,       \* whether the folder pdf_images exists
    pdf_images,       \* the page images that exist in the folder pdf_images
    image_paths,      \* the paths pdf_to_images returned for the current PDF
    rendered_pages,   \* the page each of those paths was rendered from
    responses,        \* the list process_images_with_claude is building
    all_responses,    \* the responses of the whole batch
    compiled_data,    \* the compiled output (a function from keys to values)
    views,            \* what each expander of "Individual Files/Pages" showed
    reported,         \* the last value passed to progress_bar.progress
    calls,            \* log: every unit attempted so far and what came back
    doc_pages         \* log: the page count found in each PDF opened so far

vars == <<uploaded_files, first_page_only, pc, raised, i, temp_files, disk_temp,
          dir_exists, pdf_images, image_paths, rendered_pages, responses,
          all_responses, compiled_data, views, reported, calls, doc_pages>>

PdfType == "application/pdf"
ExcelType == "application/vnd.ms-excel"
FileTypes == {PdfType, ExcelType}

Null == [null |-> TRUE]
EmptyDict == [dict |-> <<>>]

\* The JSON documents the model service answers with when its answer parses.
Answers ==
    { [dict |-> [form |-> [str |-> "W2"], boxes |-> [list |-> <<[num |-> 1]>>]]] }

\* What one model call can come back with.
Replies ==
    { [kind |-> "json", parsed |-> a] : a \in Answers }
    \cup { [kind |-> "not_json", parsed |-> Null],
           [kind |-> "transport", parsed |-> Null] }

\* The random file names pdf_to_images draws from: two of them stand for the
\* 36^8 names, enough for two pages to get different names or the same one.
Names == {"page_a.png", "page_b.png"}

Range(s) == { s[k] : k \in DOMAIN s }

Min(a, b) == IF a < b THEN a ELSE b

\* add_random: every value the nested function can return for obj.  Each
\* int leaf (a bool is an int in Python) gets its own random.randint(1, 5).
RECURSIVE add_random(_)
add_random(obj) ==
    IF "dict" \in DOMAIN obj
    THEN { [dict |-> f] :
             f \in { g \in [DOMAIN obj.dict -> UNION { add_random(obj.dict[k]) : k \in DOMAIN obj.dict }] :
                       \A k \in DOMAIN obj.dict : g[k] \in add_random(obj.dict[k]) } }
    ELSE IF "list" \in DOMAIN obj
    THEN { [list |-> f] :
             f \in { g \in [DOMAIN obj.list -> UNION { add_random(obj.list[k]) : k \in DOMAIN obj.list }] :
                       \A k \in DOMAIN obj.list : g[k] \in add_random(obj.list[k]) } }
    ELSE IF "num" \in DOMAIN obj
    THEN { [num |-> obj.num + r] : r \in RandLo..RandHi }
    ELSE IF "bool" \in DOMAIN obj
    THEN { [num |-> (IF obj.bool THEN 1 ELSE 0) + r] : r \in RandLo..RandHi }
    ELSE { obj }

\* Python truthiness of a claude_response (None and {} are falsy).
Truthy(v) ==
    IF "null" \in DOMAIN v THEN FALSE
    ELSE IF "dict" \in DOMAIN v THEN DOMAIN v.dict # {}
    ELSE IF "list" \in DOMAIN v THEN v.list # <<>>
    ELSE TRUE

\* The loop of pdf_to_images from 0-based page_num on: the 1-based positions
\* of the pages it renders before it ends or breaks.
RECURSIVE RenderFrom(_, _, _)
RenderFrom(page_num, N, fpo) ==
    IF page_num >= N \/ (fpo /\ page_num > 0)
    THEN <<>>
    ELSE <<page_num + 1>> \o RenderFrom(page_num + 1, N, fpo)

\* pdf_to_images without the first_page_only break.
RetainedPagesNoBreak(N, fpo) == [k \in 1..N |-> k]

RetainedPages(N, fpo) == RenderFrom(0, N, fpo)

\* pdf_to_images: one output path per rendered page, named by the random
\* string drawn for it.
pdf_to_images(N, fpo, names) ==
    [k \in 1..Len(RetainedPages(N, fpo)) |-> names[k]]

\* The keys with the spreadsheets numbered from 0, as the loop index is.
KeyOfLoopIndex(response) ==
    IF "file_type" \in DOMAIN response /\ response.file_type = "excel"
    THEN <<"excel_file", response.file_number - 1>>
    ELSE <<"pdf_page", response.page_number>>

\* The key process_file stores a response under.
KeyOf(response) ==
    IF "file_type" \in DOMAIN response /\ response.file_type = "excel"
    THEN <<"excel_file", response.file_number>>
    ELSE <<"pdf_page", response.page_number>>

\* The loop that fills compiled_data: a later response with the same key
\* overwrites the earlier one.
RECURSIVE CompileFrom(_, _, _)
CompileFrom(rs, k, acc) ==
    IF k > Len(rs) THEN acc
    ELSE CompileFrom(rs, k + 1,
            [x \in DOMAIN acc \cup {KeyOf(rs[k])} |->
                IF x = KeyOf(rs[k]) THEN rs[k].claude_response ELSE acc[x]])

CompileData(rs) == CompileFrom(rs, 1, <<>>)

\* One expander of "Individual Files/Pages".
ViewOf(response, images) ==
    IF "file_type" \in DOMAIN response /\ response.file_type = "excel"
    THEN [key |-> KeyOf(response), paginated |-> FALSE, image_shown |-> FALSE,
          json_shown |-> Truthy(response.claude_response)]
    ELSE [key |-> KeyOf(response), paginated |-> TRUE,
          image_shown |-> response.image_path \in images,
          json_shown |-> Truthy(response.claude_response)]

Pending == [kind |-> "pending", parsed |-> Null]

Init ==
    /\ uploaded_files \in UNION { [1..n -> FileTypes] : n \in 1..MaxDocs }
    /\ first_page_only \in BOOLEAN
    /\ pc = "button"
    /\ raised = "none"
    /\ i = 0
    /\ temp_files = <<>>
    /\ disk_temp = {}
    /\ dir_exists = FALSE
    /\ pdf_images = {}
    /\ image_paths = <<>>
    /\ rendered_pages = <<>>
    /\ responses = <<>>
    /\ all_responses = <<>>
    /\ compiled_data = <<>>
    /\ views = <<>>
    /\ reported = <<0, 1>>
    /\ calls = <<>>
    /\ doc_pages = <<>>

\* "Process Files" is pressed: the output folder is created if missing.
ClickProcess ==
    /\ pc = "button"
    /\ dir_exists' = TRUE
    /\ pc' = "for_file"
    /\ UNCHANGED <<uploaded_files, first_page_only, raised, i, temp_files, disk_temp,
                   pdf_images, image_paths, rendered_pages, responses, all_responses,
                   compiled_data, views, reported, calls, doc_pages>>

\* The pages a PDF opened now may have, so that the batch stays within
\* MaxUnits units with one unit left for every file still to come.
PageBudget == Min(MaxPages, MaxUnits - Len(calls) - (Len(uploaded_files) - (i + 1)))

\* Loop body for a PDF, up to the return of pdf_to_images: the upload is
\* copied to temp_<i>.pdf and every retained page is rendered to an image.
ConvertPdf ==
    /\ pc = "for_file"
    /\ i < Len(uploaded_files)
    /\ uploaded_files[i + 1] = PdfType
    /\ temp_files' = Append(temp_files, i)
    /\ disk_temp' = disk_temp \cup {i}
    /\ \E N \in 0..PageBudget :
       \E names \in [1..Len(RetainedPages(N, first_page_only)) -> Names] :
          /\ image_paths' = pdf_to_images(N, first_page_only, names)
          /\ rendered_pages' = RetainedPages(N, first_page_only)
          /\ pdf_images' = pdf_images \cup Range(names)
          /\ doc_pages' = Append(doc_pages, N)
    /\ responses' = <<>>
    /\ pc' = "for_page"
    /\ UNCHANGED <<uploaded_files, first_page_only, raised, i, dir_exists, all_responses,
                   compiled_data, views, reported, calls>>

\* fitz.open, get_pixmap or Image.open raises inside pdf_to_images: the pages
\* rendered before the faulty one stay on disk and the exception leaves
\* process_file (failAt = 0: the document cannot be opened at all).
ConvertPdfRaises ==
    /\ pc = "for_file"
    /\ i < Len(uploaded_files)
    /\ uploaded_files[i + 1] = PdfType
    /\ temp_files' = Append(temp_files, i)
    /\ disk_temp' = disk_temp \cup {i}
    /\ \E N \in 0..PageBudget :
       \E failAt \in 0..Len(RetainedPages(N, first_page_only)) :
       \E names \in [1..(IF failAt = 0 THEN 0 ELSE failAt - 1) -> Names] :
          /\ N = 0 => failAt = 0
          /\ N > 0 => failAt > 0
          /\ pdf_images' = pdf_images \cup Range(names)
    /\ raised' = "DocumentFormatError"
    /\ pc' = "raised"
    /\ UNCHANGED <<uploaded_files, first_page_only, i, dir_exists, image_paths,
                   rendered_pages, responses, all_responses, compiled_data, views,
                   reported, calls, doc_pages>>

\* process_images_with_claude, one page up to the model call: the image is
\* read, progress is reported and the request is sent.
PageOpen ==
    /\ pc = "for_page"
    /\ Len(responses) < Len(image_paths)
    /\ LET page_num == Len(responses) + 1
           image_path == image_paths[page_num]
       IN IF image_path \in pdf_images
          THEN /\ reported' = <<page_num, Len(image_paths)>>
               /\ calls' = Append(calls, [file |-> i + 1, page |-> page_num, reply |-> Pending])
               /\ pc' = "await_page"
               /\ UNCHANGED responses
          ELSE /\ responses' = Append(responses,
                     [page_number |-> page_num, image_path |-> image_path,
                      claude_response |-> Null, error |-> "FileNotFoundError"])
               /\ calls' = Append(calls, [file |-> i + 1, page |-> page_num,
                                         reply |-> [kind |-> "no_image", parsed |-> Null]])
               /\ UNCHANGED <<reported, pc>>
    /\ UNCHANGED <<uploaded_files, first_page_only, raised, i, temp_files, disk_temp,
                   dir_exists, pdf_images, image_paths, rendered_pages, all_responses,
                   compiled_data, views, doc_pages>>

\* The log with the reply of the call in flight filled in.
Answered(reply) == [calls EXCEPT ![Len(calls)].reply = reply]

\* process_images_with_claude, the model call of one page returns.
PageResponse ==
    /\ pc = "await_page"
    /\ LET page_num == Len(responses) + 1
           image_path == image_paths[page_num]
       IN \E reply \in Replies :
          /\ calls' = Answered(reply)
          /\ \/ /\ reply.kind = "json"
                /\ \E parsed_json \in add_random(reply.parsed) :
                      responses' = Append(responses,
                          [page_number |-> page_num, image_path |-> image_path,
                           claude_response |-> parsed_json])
                /\ pc' = "for_page"
                /\ UNCHANGED raised
             \/ /\ reply.kind = "not_json"
                /\ responses' = Append(responses,
                      [page_number |-> page_num, image_path |-> image_path,
                       claude_response |-> Null, error |-> "JSONDecodeError"])
                /\ pc' = "for_page"
                /\ UNCHANGED raised
             \/ /\ reply.kind = "transport"
                /\ raised' = "TransportError"
                /\ pc' = "raised"
                /\ UNCHANGED responses
    /\ UNCHANGED <<uploaded_files, first_page_only, i, temp_files, disk_temp, dir_exists,
                   pdf_images, image_paths, rendered_pages, all_responses, compiled_data,
                   views, reported, doc_pages>>

\* A page image disappears from pdf_images before it is read (the case the
\* FileNotFoundError handler of process_images_with_claude is written for).
ImageVanishes ==
    /\ pc = "for_page"
    /\ Len(responses) < Len(image_paths)
    /\ image_paths[Len(responses) + 1] \in pdf_images
    /\ pdf_images' = pdf_images \ {image_paths[Len(responses) + 1]}
    /\ UNCHANGED <<uploaded_files, first_page_only, pc, raised, i, temp_files, disk_temp,
                   dir_exists, image_paths, rendered_pages, responses, all_responses,
                   compiled_data, views, reported, calls, doc_pages>>

\* process_images_with_claude returns; the rest of the loop body for a PDF:
\* the responses are added to all_responses and the page images removed.
PdfDone ==
    /\ pc = "for_page"
    /\ Len(responses) = Len(image_paths)
    /\ all_responses' = all_responses \o responses
    /\ pdf_images' = pdf_images \ Range(image_paths)
    /\ responses' = <<>>
    /\ i' = i + 1
    /\ pc' = "for_file"
    /\ UNCHANGED <<uploaded_files, first_page_only, raised, temp_files, disk_temp,
                   dir_exists, image_paths, rendered_pages, compiled_data, views,
                   reported, calls, doc_pages>>

\* Loop body for a spreadsheet up to the model call: pd.read_excel either
\* raises or the table is sent to the model.
ReadExcel ==
    /\ pc = "for_file"
    /\ i < Len(uploaded_files)
    /\ uploaded_files[i + 1] # PdfType
    /\ \/ /\ calls' = Append(calls, [file |-> i + 1, page |-> 0, reply |-> Pending])
          /\ pc' = "await_excel"
          /\ UNCHANGED raised
       \/ /\ raised' = "DocumentFormatError"
          /\ pc' = "raised"
          /\ UNCHANGED calls
    /\ UNCHANGED <<uploaded_files, first_page_only, i, temp_files, disk_temp, dir_exists,
                   pdf_images, image_paths, rendered_pages, responses, all_responses,
                   compiled_data, views, reported, doc_pages>>

\* process_excel_with_gpt, the model call returns, and the append that
\* follows it in process_file.
ExcelResponse ==
    /\ pc = "await_excel"
    /\ \E reply \in Replies :
          /\ calls' = Answered(reply)
          /\ \/ /\ reply.kind = "json"
                /\ \E parsed_json \in add_random(reply.parsed) :
                      all_responses' = Append(all_responses,
                          [file_number |-> i + 1, file_type |-> "excel",
                           claude_response |-> parsed_json])
                /\ i' = i + 1
                /\ pc' = "for_file"
                /\ UNCHANGED raised
             \/ /\ reply.kind = "not_json"
                /\ all_responses' = Append(all_responses,
                      [file_number |-> i + 1, file_type |-> "excel",
                       claude_response |-> EmptyDict])
                /\ i' = i + 1
                /\ pc' = "for_file"
                /\ UNCHANGED raised
             \/ /\ reply.kind = "transport"
                /\ raised' = "TransportError"
                /\ pc' = "raised"
                /\ UNCHANGED <<all_responses, i>>
    /\ UNCHANGED <<uploaded_files, first_page_only, temp_files, disk_temp, dir_exists,
                   pdf_images, image_paths, rendered_pages, responses, compiled_data,
                   views, reported, doc_pages>>

\* After the last file: compiled_data is built and offered for download.
Compile ==
    /\ pc = "for_file"
    /\ i = Len(uploaded_files)
    /\ compiled_data' = CompileData(all_responses)
    /\ pc' = "display"
    /\ UNCHANGED <<uploaded_files, first_page_only, raised, i, temp_files, disk_temp,
                   dir_exists, pdf_images, image_paths, rendered_pages, responses,
                   all_responses, views, reported, calls, doc_pages>>

\* "Individual Files/Pages": one expander per response.
Display ==
    /\ pc = "display"
    /\ views' = [k \in 1..Len(all_responses) |-> ViewOf(all_responses[k], pdf_images)]
    /\ pc' = "cleanup"
    /\ UNCHANGED <<uploaded_files, first_page_only, raised, i, temp_files, disk_temp,
                   dir_exists, pdf_images, image_paths, rendered_pages, responses,
                   all_responses, compiled_data, reported, calls, doc_pages>>

\* The cleanup block that ends process_file.
Cleanup ==
    /\ pc = "cleanup"
    /\ disk_temp' = disk_temp \ Range(temp_files)
    /\ pdf_images' = IF dir_exists THEN {} ELSE pdf_images
    /\ dir_exists' = FALSE
    /\ pc' = "done"
    /\ UNCHANGED <<uploaded_files, first_page_only, raised, i, temp_files, image_paths,
                   rendered_pages, responses, all_responses, compiled_data, views,
                   reported, calls, doc_pages>>

Next ==
    \/ ClickProcess
    \/ ConvertPdf
    \/ ConvertPdfRaises
    \/ PageOpen
    \/ PageResponse
    \/ ImageVanishes
    \/ PdfDone
    \/ ReadExcel
    \/ ExcelResponse
    \/ Compile
    \/ Display
    \/ Cleanup

Spec == Init /\ [][Next]_vars

TypeOK == pc \in {"button", "for_file", "for_page", "await_page", "await_excel",
                  "display", "cleanup", "done", "raised"}

----------------------------------------------------------------------------
\* Control has left process_file.
Terminal == pc \in {"done", "raised"}

\* compiled_data has been built.
Compiled == pc \in {"display", "cleanup", "done"}

\* The whole batch went through the loop, the compilation and the display.
BatchFinished ==
    /\ pc = "done"
    /\ i = Len(uploaded_files)
    /\ Len(views) = Len(calls)

\* The units attempted so far that were spreadsheets / PDF pages.
ExcelCalls == { k \in 1..Len(calls) : calls[k].page = 0 }
PageCalls == { k \in 1..Len(calls) : calls[k].page > 0 }

\* The rank of the file at upload position p among the uploaded spreadsheets.
SpreadsheetRank(p) == Cardinality({ j \in 1..p : uploaded_files[j] # PdfType })

\* C1: when the batch is compiled, compiled_data has exactly one key per
\* attempted unit, and if every unit's answer parsed every key maps to a
\* non-null value.
C1_KeySetIsAttemptedUnits ==
    Compiled =>
        /\ Cardinality(DOMAIN compiled_data) = Len(calls)
        /\ (\A k \in 1..Len(calls) : calls[k].reply.kind = "json")
              => \A key \in DOMAIN compiled_data : compiled_data[key] # Null

\* C2: when the batch is compiled, every unit that failed (answer not JSON,
\* or image not readable) has its key in compiled_data mapped to null, for
\* PDF pages and spreadsheets alike.
C2_FailedUnitMapsToNull ==
    Compiled =>
        \A k \in 1..Len(calls) :
            calls[k].reply.kind \in {"not_json", "no_image"} =>
                /\ KeyOf(all_responses[k]) \in DOMAIN compiled_data
                /\ compiled_data[KeyOf(all_responses[k])] = Null

\* C3: whenever control has left process_file, by return or by exception, no
\* temp_<i>.pdf copy and no rendered page image is left.
C3_NoArtifactLeftOnExit ==
    Terminal => disk_temp = {} /\ pdf_images = {}

\* C4: the value stored for a unit whose answer parsed is the parsed JSON
\* value, unchanged.
C4_StoredValueIsParsedValue ==
    \A k \in 1..Len(all_responses) :
        calls[k].reply.kind = "json" =>
            all_responses[k].claude_response = calls[k].reply.parsed

\* C5: a model call that fails in transport or answers with text that is not
\* JSON does not abort the batch: unless a document could not be read, the
\* run ends with every file visited and the output compiled and displayed.
C5_UnitFailureDoesNotAbort ==
    ( /\ Terminal
      /\ \E k \in 1..Len(calls) : calls[k].reply.kind \in {"transport", "not_json"}
      /\ raised # "DocumentFormatError" )
    => BatchFinished

\* C6: a document that cannot be opened or parsed is the only one abandoned:
\* the run still ends with every file visited and the output compiled and
\* displayed, and none of its page images is left behind.
C6_BadDocumentDoesNotAbort ==
    (Terminal /\ raised = "DocumentFormatError") =>
        BatchFinished /\ pdf_images = {}

\* The page count of the PDF whose pages image_paths holds.
CurrentPages == doc_pages[Len(doc_pages)]

\* What C7 says of a PDF of N pages for which `expected` artifacts are due:
\* that many paths, rendered from pages 1.. in ascending order, and the page
\* numbers of the responses built from them are the positions of the pages.
RenderedAsExpected(expected) ==
    /\ Len(image_paths) = expected
    /\ rendered_pages = [k \in 1..expected |-> k]
    /\ \A k \in 1..Len(responses) :
          /\ responses[k].page_number = rendered_pages[k]
          /\ responses[k].image_path = image_paths[k]

\* C7 as stated: a PDF of N pages gives N artifacts for pages 1..N in order,
\* and exactly 1 artifact (page 1) under first_page_only, whatever N is.
C7_OneArtifactRegardlessOfN ==
    (doc_pages # <<>> /\ pc \in {"for_page", "await_page"}) =>
        RenderedAsExpected(IF first_page_only THEN 1 ELSE CurrentPages)

\* C7 amended: a PDF of N pages gives N artifacts for pages 1..N in order;
\* under first_page_only it gives 1 artifact (page 1) when N >= 1 and none
\* when the document has no page.
C7_OneArtifactPerRetainedPage ==
    (doc_pages # <<>> /\ pc \in {"for_page", "await_page"}) =>
        RenderedAsExpected(IF first_page_only THEN Min(CurrentPages, 1) ELSE CurrentPages)

\* C7 witness: a two-page PDF under first_page_only gave one artifact and its
\* response was numbered.
C7_Witness ==
    /\ pc = "for_page"
    /\ first_page_only
    /\ doc_pages # <<>>
    /\ CurrentPages = 2
    /\ Len(image_paths) = 1
    /\ Len(responses) = 1
    /\ responses[1].page_number = 1

\* C8 as stated: page n of a PDF is stored under pdf_page_<n> and the k-th
\* uploaded spreadsheet under excel_file_<k>, whatever PDFs come before it.
C8_KeyIsSpreadsheetRank ==
    Compiled =>
        /\ \A k \in PageCalls : <<"pdf_page", calls[k].page>> \in DOMAIN compiled_data
        /\ \A k \in ExcelCalls :
              <<"excel_file", SpreadsheetRank(calls[k].file)>> \in DOMAIN compiled_data

\* C8 amended: page n of a PDF is stored under pdf_page_<n> and a spreadsheet
\* under excel_file_<p>, p its 1-based position among all uploaded files;
\* compiled_data has no other key.
C8_KeyIsUploadPosition ==
    Compiled =>
        DOMAIN compiled_data =
            { <<"pdf_page", calls[k].page>> : k \in PageCalls }
            \cup { <<"excel_file", calls[k].file>> : k \in ExcelCalls }

\* C8 witness: a spreadsheet uploaded after a PDF was compiled under
\* excel_file_2, next to the PDF's pdf_page_1.
C8_Witness ==
    /\ pc = "done"
    /\ uploaded_files = <<PdfType, ExcelType>>
    /\ DOMAIN compiled_data = {<<"pdf_page", 1>>, <<"excel_file", 2>>}

\* C9: over the whole batch the reported progress never decreases
\* (fractions compared by cross-multiplication).
C9_ProgressNeverDecreases ==
    [][reported'[1] * reported[2] >= reported[1] * reported'[2]]_vars

\* C10: every view of a PDF page showed the page image, that is the image
\* still existed when the view was rendered.
C10_ImageExistsAtDisplay ==
    \A k \in 1..Len(views) : views[k].paginated => views[k].image_shown

====
